---- MODULE Spec2Model ----
(***************************************************************************)
(* chasten/main.py: the `analyze` command and the helper                   *)
(* validate_configuration_files, as one sequential state machine.          *)
(*                                                                         *)
(* One behaviour is one invocation of `analyze`.  The configuration        *)
(* directory, the command-line arguments and the searched source tree are  *)
(* inputs fixed by Init; what the external matcher yields is chosen when   *)
(* it is invoked.  Lists are sequences, Python's 0-based indexing and      *)
(* slicing are modelled by PyIndexOk / PySlice.                            *)
(***************************************************************************)
EXTENDS Integers, Sequences, FiniteSets, TLC

(***************************************************************************)
(* Bounds of the model.                                                    *)
(***************************************************************************)
MaxRefs == 2
MaxDirs == 2
MaxNames == 2
MaxItems == 2
MaxLines == 11
BaseLines == 2

(***************************************************************************)
(* Program constants (chasten/constants.py).                               *)
(***************************************************************************)
Code_Context == 5
Slice_One == 1
Non_Zero_Exit == 1

(***************************************************************************)
(* Generic helpers.                                                        *)
(***************************************************************************)
Range(s) == {s[i] : i \in 1..Len(s)}

Min(a, b) == IF a < b THEN a ELSE b

Max(a, b) == IF a > b THEN a ELSE b

BoundedSeq(S, n) == UNION {[1..k -> S] : k \in 0..n}

\* Python's list(set(...)) / all(...) over a list of booleans
PyAll(bs) == \A i \in 1..Len(bs) : bs[i]

\* s[i] with a non-negative 0-based index i raises IndexError unless i < len(s)
PyIndexOk(s, i) == i < Len(s)

\* the bound of a slice, as CPython adjusts it: negative bounds count from the
\* end, and every bound is clamped to 0..len(s)
PySliceBound(n, b) == IF b < 0 THEN Max(b + n, 0) ELSE Min(b, n)

\* 1-based positions of s that the Python slice s[lo:hi] selects
PySliceFirst(s, lo, hi) == PySliceBound(Len(s), lo) + 1

PySliceLast(s, lo, hi) == PySliceBound(Len(s), hi)

PySlice(s, lo, hi) == SubSeq(s, PySliceFirst(s, lo, hi), PySliceLast(s, lo, hi))

(***************************************************************************)
(* The configuration directory.                                            *)
(***************************************************************************)
Status == {"valid", "invalid", "unreadable"}

FileNames == {"checks_a.yml", "checks_b.yml"}

CheckNames == {"A", "B"}

\* the parsed content of each satellite checks file: {checks: [{id, name, pattern}]}
FileChecks(f) ==
    IF f = "checks_a.yml"
    THEN << [id |-> "C001", name |-> "A", pattern |-> ".//FunctionDef"],
            [id |-> "C002", name |-> "B", pattern |-> ".//ClassDef"] >>
    ELSE << [id |-> "C003", name |-> "B", pattern |-> ".//Assert"] >>

\* the document named "config.yml" is the main configuration file
MainFile == "config.yml"

(***************************************************************************)
(* The file system seen by --search-directory.                             *)
(***************************************************************************)
Paths == {"src", "README.md", "nowhere"}

\* filesystem.confirm_valid_directory: the path exists and is a directory
confirm_valid_directory(p) == p = "src"

(***************************************************************************)
(* The searched source file: n lines; every fourth line is blank.          *)
(***************************************************************************)
LineText(i) == IF i % 4 = 0 THEN << >> ELSE << "x", "=", i >>

SourceFile(n) == [i \in 1..n |-> LineText(i)]

(***************************************************************************)
(* State.                                                                  *)
(*   config_dir       the configuration directory: the status of the main  *)
(*                    file, the checks-file names it references, and the   *)
(*                    status of every referenced checks file               *)
(*   directory, check_include, check_exclude   the arguments of analyze    *)
(*   source_lines     number of lines of the Python file below the valid   *)
(*                    search directories                                   *)
(*   pc               position of the run                                  *)
(*   the remaining variables are the locals of validate_configuration_files*)
(*   and analyze under their own names, plus four records of what the run  *)
(*   did: loaded (documents read), invocations (matcher calls), yielded    *)
(*   (what the current matcher call yielded), windowed (items windowed for *)
(*   the current check), and reported / panel (what was printed last).     *)
(***************************************************************************)
VARIABLES config_dir, directory, check_include, check_exclude, source_lines,
          pc, yml_data_dict, config_file_validated, checks_files_validated_list,
          file_cursor, loaded, validated, checks_dict, check_list,
          invalid_directories, valid_directories, check_cursor, invocations,
          yielded, match_generator_list, match_cursor, reported, file_lines,
          panel, windowed, exit_code, error

inputs == << config_dir, directory, check_include, check_exclude, source_lines >>

aggregation == << yml_data_dict, config_file_validated, checks_files_validated_list,
                 file_cursor, loaded >>

outcome == << validated, checks_dict >>

partition == << check_list, invalid_directories, valid_directories >>

search == << yielded, match_generator_list, match_cursor, reported, file_lines,
            panel, windowed >>

vars == << inputs, pc, aggregation, outcome, partition, check_cursor, invocations,
          search, exit_code, error >>

NoDocument == "None"

EmptyDict == "{}"

NoPanel == [lineno |-> 0, first |-> 0, last |-> 0, marked |-> 0, lines |-> << >>]

(***************************************************************************)
(* Inputs.  The four families vary one group of inputs each around a base *)
(* run: a valid configuration that references checks_a.yml, the search     *)
(* directory "src", both check names included, a source file of BaseLines  *)
(* lines.  The source family runs the one check "A" over files of every    *)
(* length up to MaxLines.                                                  *)
(***************************************************************************)
BaseConfig == [main |-> "valid", refs |-> << "checks_a.yml" >>,
               files |-> [f \in {"checks_a.yml"} |-> "valid"]]

BaseDirectory == << "src" >>

BaseInclude == << "A", "B" >>

BaseExclude == << >>

ConfigFamily ==
    /\ \E m \in Status, r \in BoundedSeq(FileNames, MaxRefs) :
         \E fs \in [Range(r) -> Status] :
            config_dir = [main |-> m, refs |-> r, files |-> fs]
    /\ directory = BaseDirectory
    /\ check_include = BaseInclude
    /\ check_exclude = BaseExclude
    /\ source_lines = BaseLines

FilterFamily ==
    /\ config_dir = BaseConfig
    /\ directory = BaseDirectory
    /\ check_include \in BoundedSeq(CheckNames, MaxNames)
    /\ check_exclude \in BoundedSeq(CheckNames, MaxNames)
    /\ source_lines = BaseLines

DirectoryFamily ==
    /\ config_dir = BaseConfig
    /\ directory \in BoundedSeq(Paths, MaxDirs)
    /\ check_include = BaseInclude
    /\ check_exclude = BaseExclude
    /\ source_lines = BaseLines

SourceFamily ==
    /\ config_dir = BaseConfig
    /\ directory = BaseDirectory
    /\ check_include = << "A" >>
    /\ check_exclude = BaseExclude
    /\ source_lines \in 1..MaxLines

Init ==
    /\ ConfigFamily \/ FilterFamily \/ DirectoryFamily \/ SourceFamily
    /\ pc = "start"
    /\ yml_data_dict = NoDocument
    /\ config_file_validated = FALSE
    /\ checks_files_validated_list = << >>
    /\ file_cursor = 0
    /\ loaded = << >>
    /\ validated = FALSE
    /\ checks_dict = EmptyDict
    /\ check_list = << >>
    /\ invalid_directories = << >>
    /\ valid_directories = {}
    /\ check_cursor = 0
    /\ invocations = << >>
    /\ yielded = << >>
    /\ match_generator_list = << >>
    /\ match_cursor = 0
    /\ reported = 0
    /\ file_lines = << >>
    /\ panel = NoPanel
    /\ windowed = << >>
    /\ exit_code = 0
    /\ error = "none"

(***************************************************************************)
(* An uncaught exception ends the process with exit status 1.              *)
(***************************************************************************)
Raise(exception) ==
    /\ pc' = "crashed"
    /\ error' = exception
    /\ exit_code' = 1

(***************************************************************************)
(* validate_configuration_files                                            *)
(***************************************************************************)
\* validate.extract_checks_file_name: the checks-file names the main document lists
extract_checks_file_name == config_dir.refs

\* extract_configuration_details: read_text / open raise when the file is
\* missing, yaml.safe_load raises when it is malformed
Readable(status) == status # "unreadable"

\* validate_file: the verdict of validate.validate_configuration
validate_file(status) == status = "valid"

\* the main configuration file is read and validated; the names of the
\* checks files are extracted whatever the verdict was
LoadMainConfiguration ==
    /\ pc = "start"
    /\ IF Readable(config_dir.main)
       THEN /\ yml_data_dict' = MainFile
            /\ loaded' = Append(loaded, MainFile)
            /\ config_file_validated' = validate_file(config_dir.main)
            /\ checks_files_validated_list' = << >>
            /\ file_cursor' = 0
            /\ pc' = "checks_files"
            /\ UNCHANGED << exit_code, error >>
       ELSE /\ Raise("FileNotFoundError")
            /\ UNCHANGED aggregation
    /\ UNCHANGED << inputs, outcome, partition, check_cursor, invocations, search >>

\* one iteration of the loop over checks_file_name_list
LoadChecksFile ==
    /\ pc = "checks_files"
    /\ file_cursor < Len(extract_checks_file_name)
    /\ LET checks_file_name == extract_checks_file_name[file_cursor + 1]
           status == config_dir.files[checks_file_name]
       IN IF Readable(status)
          THEN /\ yml_data_dict' = checks_file_name
               /\ loaded' = Append(loaded, checks_file_name)
               /\ checks_files_validated_list' =
                      Append(checks_files_validated_list, validate_file(status))
               /\ file_cursor' = file_cursor + 1
               /\ UNCHANGED << pc, config_file_validated, exit_code, error >>
          ELSE /\ Raise("FileNotFoundError")
               /\ UNCHANGED aggregation
    /\ UNCHANGED << inputs, outcome, partition, check_cursor, invocations, search >>

\* a faulty variant: only the verdict of the last checks file is consulted
ValidationResult_LastFileOnly(main_ok, files_ok, last_document) ==
    IF main_ok /\ (files_ok = << >> \/ files_ok[Len(files_ok)])
    THEN << TRUE, last_document >>
    ELSE << FALSE, EmptyDict >>

\* the pair validate_configuration_files returns
ValidationResult(main_ok, files_ok, last_document) ==
    IF main_ok /\ PyAll(files_ok)
    THEN << TRUE, last_document >>
    ELSE << FALSE, EmptyDict >>

\* the loop is over: the function returns and analyze unpacks the pair
ReturnValidation ==
    /\ pc = "checks_files"
    /\ file_cursor = Len(extract_checks_file_name)
    /\ LET result == ValidationResult(config_file_validated,
                                      checks_files_validated_list, yml_data_dict)
       IN /\ validated' = result[1]
          /\ checks_dict' = result[2]
    /\ pc' = "validated"
    /\ UNCHANGED << inputs, aggregation, partition, check_cursor, invocations,
                    search, exit_code, error >>

(***************************************************************************)
(* analyze                                                                 *)
(***************************************************************************)
\* a faulty variant: sys.exit() without a status, which exits with status 0
ExitOnConfigurationError_StatusZero ==
    /\ pc = "validated"
    /\ ~validated
    /\ pc' = "exited"
    /\ exit_code' = 0
    /\ error' = "SystemExit"
    /\ UNCHANGED << inputs, aggregation, outcome, partition, check_cursor,
                    invocations, search >>

\* sys.exit(constants.markers.Non_Zero_Exit)
ExitOnConfigurationError ==
    /\ pc = "validated"
    /\ ~validated
    /\ pc' = "exited"
    /\ exit_code' = Non_Zero_Exit
    /\ error' = "SystemExit"
    /\ UNCHANGED << inputs, aggregation, outcome, partition, check_cursor,
                    invocations, search >>

\* checks_dict["checks"]: the checks of a checks file; of the main document
\* (returned when it references no checks file) its list of references
DocumentChecks(document) ==
    IF document = MainFile THEN extract_checks_file_name ELSE FileChecks(document)

\* the loop that collects the invalid directories, in argument order
RECURSIVE CollectInvalid(_)
CollectInvalid(dirs) ==
    IF dirs = << >> THEN << >>
    ELSE IF ~confirm_valid_directory(Head(dirs))
         THEN << Head(dirs) >> \o CollectInvalid(Tail(dirs))
         ELSE CollectInvalid(Tail(dirs))

\* a faulty variant: the invalid directories are not removed
ValidDirectories_All(dirs, invalid) == Range(dirs)

\* list(set(directory) - set(invalid_directories)), as a set
ValidDirectories(dirs, invalid) == Range(dirs) \ Range(invalid)

PartitionDirectories ==
    /\ pc = "validated"
    /\ validated
    /\ check_list' = DocumentChecks(checks_dict)
    /\ invalid_directories' = CollectInvalid(directory)
    /\ valid_directories' = ValidDirectories(directory, invalid_directories')
    /\ check_cursor' = 1
    /\ pc' = "checks"
    /\ UNCHANGED << inputs, aggregation, outcome, invocations, search,
                    exit_code, error >>

(***************************************************************************)
(* The external matcher (pyastgrep) and the match objects it yields.       *)
(***************************************************************************)
Match(lineno) == [kind |-> "Match", lineno |-> lineno]

EndOfFile == [kind |-> "EndOfFile", lineno |-> 0]

\* isinstance(item, pyastgrepsearch.Match)
IsMatch(item) == item.kind = "Match"

\* what search_python_files may yield over the given paths: nothing when
\* there is no path to search, else matches at lines of the source file and
\* end-of-file markers, in any order
search_python_files(paths, lines) ==
    IF paths = {} THEN { << >> }
    ELSE BoundedSeq({Match(l) : l \in 1..lines} \cup {EndOfFile}, MaxItems)

\* process.filter_matches: (the items of the data type, the other items)
filter_matches(match_list) ==
    << SelectSeq(match_list, IsMatch),
       SelectSeq(match_list, LAMBDA item : ~IsMatch(item)) >>

\* a faulty variant: the materialized list is used unfiltered
KeptMatches_Unfiltered(match_list) == match_list

\* (match_generator_list, _) = process.filter_matches(...)
KeptMatches(match_list) == filter_matches(match_list)[1]

(***************************************************************************)
(* The loop over check_list.                                               *)
(***************************************************************************)
\* the condition of the `continue`
NotSpecified(current_check_name) ==
    \/ current_check_name \in Range(check_exclude)
    \/ current_check_name \notin Range(check_include)

SkipCheck ==
    /\ pc = "checks"
    /\ check_cursor <= Len(check_list)
    /\ NotSpecified(check_list[check_cursor].name)
    /\ check_cursor' = check_cursor + 1
    /\ UNCHANGED << inputs, pc, aggregation, outcome, partition, invocations,
                    search, exit_code, error >>

\* the matcher is invoked, its output materialized and filtered, and the
\* number of matches printed
PerformCheck ==
    /\ pc = "checks"
    /\ check_cursor <= Len(check_list)
    /\ ~NotSpecified(check_list[check_cursor].name)
    /\ invocations' = Append(invocations,
                             [check |-> check_cursor,
                              paths |-> valid_directories,
                              expression |-> check_list[check_cursor].pattern])
    /\ \E output \in search_python_files(valid_directories, source_lines) :
          /\ yielded' = output
          /\ match_generator_list' = KeptMatches(output)
    /\ reported' = Len(match_generator_list')
    /\ file_lines' = SourceFile(source_lines)
    /\ match_cursor' = 1
    /\ panel' = NoPanel
    /\ windowed' = << >>
    /\ pc' = "matches"
    /\ UNCHANGED << inputs, aggregation, outcome, partition, check_cursor,
                    exit_code, error >>

\* all_lines[position_end] = f"*{all_lines[position_end][Slice_One:]}"
MarkLine(all_lines, position_end) ==
    [all_lines EXCEPT ![position_end + 1] =
        << "*" >> \o PySlice(@, Slice_One, Len(@))]

\* all_lines[position_end - Code_Context : position_end + Code_Context],
\* with the 1-based numbers of the first and last line it holds
Window(all_lines, position_end) ==
    [lineno |-> position_end,
     first  |-> PySliceFirst(all_lines, position_end - Code_Context,
                             position_end + Code_Context),
     last   |-> PySliceLast(all_lines, position_end - Code_Context,
                            position_end + Code_Context),
     marked |-> position_end + 1,
     lines  |-> PySlice(all_lines, position_end - Code_Context,
                        position_end + Code_Context)]

\* one iteration of the loop over match_generator_list; file_lines is the
\* list object the matches of the file share, and it is written in place
DisplayMatch ==
    /\ pc = "matches"
    /\ match_cursor <= Len(match_generator_list)
    /\ LET search_output == match_generator_list[match_cursor]
           position_end == search_output.lineno
       IN IF ~IsMatch(search_output)
          THEN /\ match_cursor' = match_cursor + 1
               /\ UNCHANGED << pc, file_lines, panel, windowed, exit_code, error >>
          ELSE IF ~PyIndexOk(file_lines, position_end)
          THEN /\ Raise("IndexError")
               /\ UNCHANGED << match_cursor, file_lines, panel, windowed >>
          ELSE /\ file_lines' = MarkLine(file_lines, position_end)
               /\ panel' = Window(file_lines', position_end)
               /\ windowed' = Append(windowed, search_output)
               /\ match_cursor' = match_cursor + 1
               /\ UNCHANGED << pc, exit_code, error >>
    /\ UNCHANGED << inputs, aggregation, outcome, partition, check_cursor,
                    invocations, yielded, match_generator_list, reported >>

\* the loop over the matches is over: on to the next check
NextCheck ==
    /\ pc = "matches"
    /\ match_cursor > Len(match_generator_list)
    /\ check_cursor' = check_cursor + 1
    /\ pc' = "checks"
    /\ UNCHANGED << inputs, aggregation, outcome, partition, invocations,
                    search, exit_code, error >>

\* the loop over the checks is over: analyze returns
Finish ==
    /\ pc = "checks"
    /\ check_cursor > Len(check_list)
    /\ pc' = "done"
    /\ UNCHANGED << inputs, aggregation, outcome, partition, check_cursor,
                    invocations, search, exit_code, error >>

Next ==
    \/ LoadMainConfiguration
    \/ LoadChecksFile
    \/ ReturnValidation
    \/ ExitOnConfigurationError
    \/ PartitionDirectories
    \/ SkipCheck
    \/ PerformCheck
    \/ DisplayMatch
    \/ NextCheck
    \/ Finish

Spec == Init /\ [][Next]_vars

(***************************************************************************)
(* Vocabulary of the properties.                                           *)
(***************************************************************************)
\* validate_configuration_files has returned
Returned ==
    \/ pc \in {"validated", "exited", "checks", "matches", "done"}
    \/ pc = "crashed" /\ error = "IndexError"

\* the directories have been partitioned
Partitioned ==
    \/ pc \in {"checks", "matches", "done"}
    \/ pc = "crashed" /\ error = "IndexError"

\* the run is over after a configuration that validated
RunOver == validated /\ pc \in {"done", "crashed"}

\* the main configuration file and every referenced checks file validate
AllDocumentsValid ==
    /\ config_dir.main = "valid"
    /\ \A i \in 1..Len(config_dir.refs) :
          config_dir.files[config_dir.refs[i]] = "valid"

\* the checks of the referenced files, in reference order, then document order
RECURSIVE MergedChecks(_)
MergedChecks(names) ==
    IF names = << >> THEN << >>
    ELSE FileChecks(Head(names)) \o MergedChecks(Tail(names))

\* the positions in the check list of the checks whose name is included and
\* not excluded, in list order
RECURSIVE EligiblePositions(_, _)
EligiblePositions(list, from) ==
    IF from > Len(list) THEN << >>
    ELSE IF /\ list[from].name \in Range(check_include)
            /\ list[from].name \notin Range(check_exclude)
         THEN << from >> \o EligiblePositions(list, from + 1)
         ELSE EligiblePositions(list, from + 1)

InvokedPositions == [i \in 1..Len(invocations) |-> invocations[i].check]

\* the 1-based lines [l - r, l + r) of a file of n lines
ClippedFirst(l, r) == Max(1, l - r)

ClippedLast(l, r, n) == Min(n, l + r - 1)

GenuineMatches(items) == {i \in 1..Len(items) : items[i].kind = "Match"}

Sentinels(items) == {i \in 1..Len(items) : items[i].kind = "EndOfFile"}

(***************************************************************************)
(* C1.  A run with a valid configuration invokes the matcher exactly once  *)
(* for each check whose name is included and not excluded, in check-list   *)
(* order, and for no other check.  Stated of the finished run.             *)
(***************************************************************************)
C1_MatcherInvokedForEligibleChecks ==
    RunOver => InvokedPositions = EligiblePositions(check_list, 1)

\* what does hold of the filter: the invocations are always an initial part
\* of the eligible checks, and all of them once the run reaches `done`
C1_HoldsOfCompletedRuns ==
    validated =>
        /\ LET eligible == EligiblePositions(check_list, 1)
           IN /\ Len(InvokedPositions) <= Len(eligible)
              /\ InvokedPositions = SubSeq(eligible, 1, Len(InvokedPositions))
        /\ pc = "done" => InvokedPositions = EligiblePositions(check_list, 1)

(***************************************************************************)
(* C2.  When every document validates, the check list that aggregation     *)
(* returns and analyze iterates is the concatenation of the checks of all  *)
(* referenced checks files, in reference order.                            *)
(***************************************************************************)
C2_ChecksAreMerged ==
    /\ (Returned /\ validated) =>
          DocumentChecks(checks_dict) = MergedChecks(config_dir.refs)
    /\ (Partitioned /\ validated) => check_list = MergedChecks(config_dir.refs)

(***************************************************************************)
(* C3.  Aggregation reports valid iff the main document and every          *)
(* referenced checks file validated, and returns the empty check set       *)
(* whenever it reports invalid.                                            *)
(***************************************************************************)
C3_ValidIffAllValid ==
    Returned =>
        /\ validated <=> AllDocumentsValid
        /\ ~validated => checks_dict = EmptyDict

C3_Witness ==
    /\ pc = "validated"
    /\ ~validated
    /\ checks_dict = EmptyDict
    /\ config_dir.main = "valid"
    /\ Len(config_dir.refs) = 2
    /\ config_dir.files[config_dir.refs[1]] = "invalid"
    /\ config_dir.files[config_dir.refs[2]] = "valid"
    /\ yml_data_dict = config_dir.refs[2]

(***************************************************************************)
(* C4.  When validation fails the run ends with a non-zero exit code, and  *)
(* neither the directory partition nor a matcher invocation happens.       *)
(***************************************************************************)
ValidationFailed == Returned /\ ~validated

C4_FailedValidationAborts ==
    /\ [](ValidationFailed =>
            /\ pc \in {"validated", "exited"}
            /\ invocations = << >>
            /\ valid_directories = {}
            /\ invalid_directories = << >>
            /\ check_cursor = 0
            /\ pc = "exited" => exit_code # 0
            /\ pc = "validated" => ENABLED Next)
    /\ [][(ValidationFailed /\ pc = "validated") =>
             (pc' = "exited" /\ exit_code' # 0)]_vars

C4_Witness ==
    /\ pc = "exited"
    /\ ~validated
    /\ exit_code = Non_Zero_Exit
    /\ config_dir.main = "invalid"
    /\ directory # << >>

(***************************************************************************)
(* C5.  The window displayed for a match at line L of a file of N lines is *)
(* the run of lines [L - R, L + R) clipped to 1..N: it contains line L and *)
(* starts at line 1 when L - R < 1.                                        *)
(***************************************************************************)
C5_WindowIsClippedNeighbourhood ==
    windowed # << >> =>
        /\ panel.first = ClippedFirst(panel.lineno, Code_Context)
        /\ panel.last = ClippedLast(panel.lineno, Code_Context, source_lines)
        /\ panel.first <= panel.lineno /\ panel.lineno <= panel.last

(***************************************************************************)
(* C6.  The line tagged for highlighting is the matched line, and tagging  *)
(* changes the content of no line of the match's file-line list.           *)
(***************************************************************************)
C6_MarkIsMatchedLineAndContentKept ==
    windowed # << >> =>
        /\ panel.marked = panel.lineno
        /\ file_lines = SourceFile(source_lines)

(***************************************************************************)
(* C7.  The reported match count of a check is the number of genuine Match *)
(* items the matcher yielded for it; end-of-file sentinels count for       *)
(* nothing and are never windowed.                                         *)
(***************************************************************************)
C7_CountIsGenuineMatches ==
    invocations # << >> =>
        /\ reported = Cardinality(GenuineMatches(yielded))
        /\ Sentinels(windowed) = {}
        /\ Sentinels(match_generator_list) = {}
        /\ Len(windowed) <= reported

C7_Witness ==
    /\ pc = "matches"
    /\ Sentinels(yielded) # {}
    /\ GenuineMatches(yielded) # {}
    /\ Len(yielded) > reported
    /\ windowed # << >>

(***************************************************************************)
(* C8.  The paths passed to the matcher are exactly the requested paths    *)
(* that are directories; valid and invalid are disjoint and together the   *)
(* requested set; an invalid directory does not abort the run; the         *)
(* partition is a function of the request and the file system.             *)
(***************************************************************************)
C8_PartitionOfDirectories ==
    /\ [](Partitioned =>
            /\ valid_directories =
                  {d \in Range(directory) : confirm_valid_directory(d)}
            /\ Range(invalid_directories) =
                  {d \in Range(directory) : ~confirm_valid_directory(d)}
            /\ valid_directories \cap Range(invalid_directories) = {}
            /\ valid_directories \cup Range(invalid_directories) = Range(directory)
            /\ \A i \in 1..Len(invocations) :
                  invocations[i].paths = valid_directories)
    /\ [][(pc = "validated" /\ validated) => pc' = "checks"]_vars

C8_Witness ==
    /\ Partitioned
    /\ invalid_directories # << >>
    /\ valid_directories # {}
    /\ invocations # << >>
    /\ pc = "done"

(***************************************************************************)
(* C9.  A match whose line lies at or beyond the end of its file-line list *)
(* is skipped: windowing it does not abort the run.                        *)
(***************************************************************************)
C9_WindowingFailureDoesNotAbort ==
    ~(pc = "crashed" /\ error = "IndexError")

(***************************************************************************)
(* C10.  When the main document fails validation, aggregation returns      *)
(* (invalid, empty) at once: no checks file is loaded after it.            *)
(***************************************************************************)
C10_NoLoadAfterInvalidMain ==
    (loaded # << >> /\ ~config_file_validated) =>
        /\ loaded = << MainFile >>
        /\ Returned => (~validated /\ checks_dict = EmptyDict)

====
